---- MODULE Spec2Model ----
(***************************************************************************)
(* Model of the analytics agent's two stateful components:                 *)
(*   - the Query Gate   (execute-operational-query tool, src/unnamed/part_000)       *)
(*   - the Embedding Indexer (src/scripts/populate-embeddings.ts), together *)
(*     with the Similarity Search reader of the description store            *)
(*     (src/unnamed/part_001).                                               *)
(* Text is modelled as sequences of one-character strings so that lower-   *)
(* casing, word boundaries, substring tests and trimming are computed.     *)
(***************************************************************************)
EXTENDS Integers, Sequences, FiniteSets, TLC

\* ------------------------------------------------------------------ bounds
\* number of text pieces an input statement is built from
MaxPieces == 3
\* how many rows beyond the cap the driver's fetchAll may return
MaxExtraRows == 1
\* number of rows in a DESCRIBE TABLE EXTENDED dump handed to getColumns alone
MaxDumpRows == 3

\* ------------------------------------------------------- program constants
MAX_ROWS == 500
QUERY_TIMEOUT_SEC == 30

\* --------------------------------------------------------------- characters
UpperLetters ==
  <<"A","B","C","D","E","F","G","H","I","J","K","L","M",
    "N","O","P","Q","R","S","T","U","V","W","X","Y","Z">>
LowerLetters ==
  <<"a","b","c","d","e","f","g","h","i","j","k","l","m",
    "n","o","p","q","r","s","t","u","v","w","x","y","z">>
DigitChars == <<"0","1","2","3","4","5","6","7","8","9">>

Range(s) == {s[i] : i \in DOMAIN s}
UpperSet == Range(UpperLetters)
LowerSet == Range(LowerLetters)
WordChars == UpperSet \cup LowerSet \cup Range(DigitChars) \cup {"_"}
SpaceChars == {" ", "\t", "\n", "\r"}

\* String.prototype.toLowerCase / toUpperCase, one character at a time
LowerChar(c) ==
  IF c \in UpperSet
    THEN LowerLetters[CHOOSE i \in DOMAIN UpperLetters : UpperLetters[i] = c]
    ELSE c
UpperChar(c) ==
  IF c \in LowerSet
    THEN UpperLetters[CHOOSE i \in DOMAIN LowerLetters : LowerLetters[i] = c]
    ELSE c
toLowerCase(s) == [i \in DOMAIN s |-> LowerChar(s[i])]
toUpperCase(s) == [i \in DOMAIN s |-> UpperChar(s[i])]

\* the regular expression classes \w and \s
IsWordChar(c) == c \in WordChars
IsSpaceChar(c) == c \in SpaceChars

\* String.prototype.includes
includes(s, sub) ==
  \E i \in 1..(Len(s) - Len(sub) + 1) : SubSeq(s, i, i + Len(sub) - 1) = sub

\* template-literal rendering of a non-negative number
RECURSIVE NumToChars(_)
NumToChars(n) ==
  IF n < 10 THEN <<DigitChars[n + 1]>>
  ELSE NumToChars(n \div 10) \o <<DigitChars[(n % 10) + 1]>>

\* ---------------------------------------------------------------- denylist
DISALLOWED_OPERATIONS ==
  << <<"i","n","s","e","r","t">>,
     <<"u","p","d","a","t","e">>,
     <<"d","e","l","e","t","e">>,
     <<"d","r","o","p">>,
     <<"c","r","e","a","t","e">>,
     <<"a","l","t","e","r">>,
     <<"t","r","u","n","c","a","t","e">>,
     <<"g","r","a","n","t">>,
     <<"r","e","v","o","k","e">>,
     <<"c","o","p","y">>,
     <<"c","a","l","l">>,
     <<"d","o">> >>

Null == <<"null">>

\* \b at the gap in front of position p of s (p in 1..Len(s)+1)
WordBoundary(s, p) ==
  LET before == p > 1 /\ IsWordChar(s[p - 1])
      after  == p <= Len(s) /\ IsWordChar(s[p])
  IN before # after

\* new RegExp(`\\b${operation}\\b`).test(s)
PatternTest(operation, s) ==
  \E i \in 1..(Len(s) - Len(operation) + 1) :
     /\ SubSeq(s, i, i + Len(operation) - 1) = operation
     /\ WordBoundary(s, i)
     /\ WordBoundary(s, i + Len(operation))

\* the scan of a query already normalised by the caller
ScanDenylist(normalizedQuery) ==
  LET hits == {k \in DOMAIN DISALLOWED_OPERATIONS :
                 PatternTest(DISALLOWED_OPERATIONS[k], normalizedQuery)}
  IN IF hits = {} THEN Null
     ELSE toUpperCase(DISALLOWED_OPERATIONS[CHOOSE k \in hits : \A j \in hits : k <= j])

\* a scan that forgets to lower-case the query first
containsDisallowedOperationCaseSensitive(query) == ScanDenylist(query)

containsDisallowedOperation(query) == ScanDenylist(toLowerCase(query))

\* ------------------------------------------------------------ ensureRowLimit
RECURSIVE trimEnd(_)
trimEnd(s) ==
  IF Len(s) > 0 /\ IsSpaceChar(s[Len(s)]) THEN trimEnd(SubSeq(s, 1, Len(s) - 1))
  ELSE s

\* whether s from position i to its end matches  ;?\s*$
TailMatches(s, i) ==
  \/ \A j \in i..Len(s) : IsSpaceChar(s[j])
  \/ /\ i <= Len(s)
     /\ s[i] = ";"
     /\ \A j \in (i + 1)..Len(s) : IsSpaceChar(s[j])

\* s.replace(/;?\s*$/, ""): the leftmost match is removed
StripTail(s) ==
  LET starts == {i \in 1..(Len(s) + 1) : TailMatches(s, i)}
      first  == CHOOSE i \in starts : \A j \in starts : i <= j
  IN SubSeq(s, 1, first - 1)

LimitClause == <<" ","L","I","M","I","T"," ">> \o NumToChars(MAX_ROWS)

\* a variant that only looks for "limit" and not for "fetch"
ensureRowLimitLimitOnly(sqlQuery) ==
  IF includes(toLowerCase(sqlQuery), <<"l","i","m","i","t">>)
    THEN sqlQuery
    ELSE StripTail(trimEnd(sqlQuery)) \o LimitClause

ensureRowLimit(sqlQuery) ==
  LET normalizedQuery == toLowerCase(sqlQuery)
      hasRowLimit ==
        \/ includes(normalizedQuery, <<"l","i","m","i","t">>)
        \/ includes(normalizedQuery, <<"f","e","t","c","h">>)
  IN IF hasRowLimit THEN sqlQuery
     ELSE StripTail(trimEnd(sqlQuery)) \o LimitClause

\* --------------------------------------------------------- Query Gate inputs
Pieces ==
  { <<"t","1">>,
    <<" ">>, <<";">>, <<"_">>,
    <<"D","o">>,
    <<"i","n","s","e","r","t">>,
    <<"L","i","m","i","t">>,
    <<"F","E","T","C","H">> }

RECURSIVE Concats(_)
Concats(k) ==
  IF k = 0 THEN {<<>>}
  ELSE LET prev == Concats(k - 1)
       IN prev \cup {p \o q : p \in prev, q \in Pieces}

Queries == Concats(MaxPieces)

\* row counts the driver's fetchAll may deliver
RowCounts == {0} \cup ((MAX_ROWS - 1)..(MAX_ROWS + MaxExtraRows))

\* ------------------------------------------------------------- the catalog
\* tables of the configured schema, in the order SHOW TABLES lists them
Tables == <<"A", "B", "C", "D">>

\* number of tables SHOW TABLES returns in one run
MaxTables == 3

RECURSIVE SubSeqsOf(_)
SubSeqsOf(s) ==
  IF s = <<>> THEN {<<>>}
  ELSE LET rest == SubSeqsOf(Tail(s))
       IN rest \cup {<<Head(s)>> \o r : r \in rest}

\* what SHOW TABLES may return
Listings == {l \in SubSeqsOf(Tables) : Len(l) <= MaxTables}

NoMatch == <<>>

\* a row of DESCRIBE TABLE EXTENDED; fk is what
\* data_type.match(/(\w+)\s*->\s*(\w+)\.(\w+)/) yields for the row
DescribeRow(name, type, fk) == [col_name |-> name, data_type |-> type, fk |-> fk]

DescribeRows(t) ==
  CASE t = "A" ->
         << DescribeRow(<<"I","D">>, <<"b","i","g","i","n","t">>, NoMatch),
            DescribeRow(<<"s","t","a","t","u","s">>, <<"s","t","r","i","n","g">>, NoMatch),
            DescribeRow(<<>>, <<>>, NoMatch),
            DescribeRow(<<"#"," ","D","e","t","a","i","l","e","d"," ","T","a","b","l","e"," ","I","n","f","o","r","m","a","t","i","o","n">>, <<>>, NoMatch),
            DescribeRow(<<"O","w","n","e","r">>, <<"r","o","o","t">>, NoMatch) >>
    [] t = "B" ->
         << DescribeRow(<<"I","D">>, <<"b","i","g","i","n","t">>, NoMatch),
            DescribeRow(<<"a","_","i","d">>, <<"b","i","g","i","n","t">>, NoMatch),
            DescribeRow(<<"n","o","t","e">>, <<"S","T","R","I","N","G">>, NoMatch),
            DescribeRow(<<"#"," ","P","a","r","t","i","t","i","o","n"," ","I","n","f","o","r","m","a","t","i","o","n">>, <<>>, NoMatch),
            DescribeRow(<<"a","_","i","d">>, <<"b","i","g","i","n","t">>, NoMatch),
            DescribeRow(<<"#"," ","D","e","t","a","i","l","e","d"," ","T","a","b","l","e"," ","I","n","f","o","r","m","a","t","i","o","n">>, <<>>, NoMatch),
            DescribeRow(<<"F","o","r","e","i","g","n"," ","K","e","y">>, <<"a","_","i","d"," ","-",">"," ","A",".","i","d">>, <<<<"a","_","i","d">>, <<"A">>, <<"i","d">>>>),
            DescribeRow(<<"F","o","r","e","i","g","n"," ","K","e","y">>, <<"b","r","o","k","e","n">>, NoMatch) >>
    [] t = "C" ->
         << DescribeRow(<<"n","a","m","e">>, <<"v","a","r","c","h","a","r">>, NoMatch),
            DescribeRow(<<"k","i","n","d">>, <<"C","h","a","r">>, NoMatch),
            DescribeRow(<<"n">>, <<>>, NoMatch),
            DescribeRow(<<"#"," ","D","e","t","a","i","l","e","d"," ","T","a","b","l","e"," ","I","n","f","o","r","m","a","t","i","o","n">>, <<>>, NoMatch) >>
    [] OTHER ->
         << DescribeRow(<<" ">>, <<>>, NoMatch),
            DescribeRow(<<"k">>, <<"i","n","t">>, NoMatch),
            DescribeRow(<<"t","a","g">>, <<"t","e","x","t">>, NoMatch),
            DescribeRow(<<"#"," ","D","e","t","a","i","l","e","d"," ","T","a","b","l","e"," ","I","n","f","o","r","m","a","t","i","o","n">>, <<>>, NoMatch),
            DescribeRow(<<"F","o","r","e","i","g","n"," ","K","e","y">>, <<"k"," ","-",">"," ","A",".","i","d">>, <<<<"k">>, <<"A">>, <<"i","d">>>>) >>

\* rows of SHOW TBLPROPERTIES
PropertyRows(t) ==
  CASE t = "A" ->
         << [key |-> "delta.minReaderVersion", value |-> <<"1">>],
            [key |-> "primaryKey", value |-> <<"I","D">>] >>
    [] t = "B" ->
         << [key |-> "primary_key", value |-> <<"I","D",","," ","a","_","i","d">>],
            [key |-> "primaryKey", value |-> <<"n","o","t","e">>] >>
    [] t = "C" -> << [key |-> "owner", value |-> <<"r","o","o","t">>] >>
    [] OTHER -> <<>>

\* rows of SELECT DISTINCT col AS value ... LIMIT 20; a value is <<>> for
\* null and <<k>> for the k-th string in lexical order
DistinctRows(t, columnName) ==
  CASE t = "A" /\ columnName = <<"s","t","a","t","u","s">> -> << <<3>>, <<>>, <<1>>, <<2>> >>
    [] t = "B" /\ columnName = <<"n","o","t","e">> -> << <<7>> >>
    [] t = "C" /\ columnName = <<"n","a","m","e">> -> [k \in 1..11 |-> <<12 - k>>]
    [] t = "C" /\ columnName = <<"k","i","n","d">> -> << <<2>>, <<1>> >>
    [] t = "D" /\ columnName = <<"t","a","g">> -> << <<>>, <<5>>, <<4>> >>
    [] OTHER -> <<>>

\* -------------------------------------------------------- Metadata Extractor
\* String.prototype.startsWith
startsWith(s, prefix) == Len(s) >= Len(prefix) /\ SubSeq(s, 1, Len(prefix)) = prefix

RECURSIVE trimStart(_)
trimStart(s) ==
  IF Len(s) > 0 /\ IsSpaceChar(s[1]) THEN trimStart(Tail(s)) ELSE s

\* String.prototype.trim
trim(s) == trimStart(trimEnd(s))

\* String.prototype.split on a one-character separator
RECURSIVE split(_, _)
split(s, sep) ==
  LET hits == {i \in 1..Len(s) : s[i] = sep}
  IN IF hits = {} THEN <<s>>
     ELSE LET first == CHOOSE i \in hits : \A j \in hits : i <= j
          IN <<SubSeq(s, 1, first - 1)>> \o split(SubSeq(s, first + 1, Len(s)), sep)

ColumnInfo(name, type) ==
  [columnName |-> name, dataType |-> type, isNullable |-> TRUE,
   isPrimaryKey |-> FALSE, isForeignKey |-> FALSE]

\* lines 91-112: the loop over the rows of the catalog dump
RECURSIVE getColumnsFrom(_, _)
getColumnsFrom(result, columns) ==
  IF result = <<>> THEN columns
  ELSE LET typedRow == Head(result)
       IN IF typedRow.col_name = <<>> \/ startsWith(typedRow.col_name, <<"#">>)
            THEN columns
          ELSE IF trim(typedRow.col_name) = <<>>
            THEN getColumnsFrom(Tail(result), columns)
          ELSE getColumnsFrom(
                 Tail(result),
                 Append(columns,
                        ColumnInfo(typedRow.col_name,
                                   IF typedRow.data_type = <<>> THEN <<"s","t","r","i","n","g">>
                                   ELSE typedRow.data_type)))

getColumns(result) == getColumnsFrom(result, <<>>)

\* lines 132-139: the first primary-key property decides
RECURSIVE getPrimaryKeys(_)
getPrimaryKeys(result) ==
  IF result = <<>> THEN <<>>
  ELSE LET typedRow == Head(result)
       IN IF typedRow.key = "primaryKey" \/ typedRow.key = "primary_key"
            THEN LET parts == split(typedRow.value, ",")
                 IN [k \in DOMAIN parts |-> trim(parts[k])]
          ELSE getPrimaryKeys(Tail(result))

ForeignKeyInfo(m) ==
  [columnName |-> m[1], referencedTable |-> m[2], referencedColumn |-> m[3]]

\* lines 162-185: the scan of the detail section
RECURSIVE getForeignKeysFrom(_, _, _)
getForeignKeysFrom(result, inDetailSection, foreignKeys) ==
  IF result = <<>> THEN foreignKeys
  ELSE LET typedRow == Head(result)
       IN IF typedRow.col_name = <<"#"," ","D","e","t","a","i","l","e","d"," ","T","a","b","l","e"," ","I","n","f","o","r","m","a","t","i","o","n">>
            THEN getForeignKeysFrom(Tail(result), TRUE, foreignKeys)
          ELSE IF /\ inDetailSection
                  /\ includes(typedRow.col_name, <<"F","o","r","e","i","g","n"," ","K","e","y">>)
                  /\ typedRow.fk # NoMatch
            THEN getForeignKeysFrom(Tail(result), inDetailSection,
                                    Append(foreignKeys, ForeignKeyInfo(typedRow.fk)))
          ELSE getForeignKeysFrom(Tail(result), inDetailSection, foreignKeys)

getForeignKeys(result) == getForeignKeysFrom(result, FALSE, <<>>)

textTypes == {<<"s","t","r","i","n","g">>, <<"t","e","x","t">>, <<"v","a","r","c","h","a","r">>, <<"c","h","a","r">>}

\* lines 198-200
candidates(columns) ==
  SelectSeq(columns, LAMBDA c : toLowerCase(c.dataType) \in textTypes)

\* lines 221-232: what one distinct-value probe adds to enumValues
enumEntry(column, result) ==
  LET values == SelectSeq(result, LAMBDA v : v # <<>>)
  IN IF Len(values) >= 2 /\ Len(values) <= 10
       THEN << [columnName |-> column.columnName,
                values |-> SortSeq(values, LAMBDA a, b : a[1] < b[1])] >>
     ELSE <<>>

\* lines 251-257: the key flags of the columns
flagColumns(columns, primaryKeys, foreignKeys) ==
  LET pkSet == Range(primaryKeys)
      fkSet == {foreignKeys[k].columnName : k \in DOMAIN foreignKeys}
  IN [k \in DOMAIN columns |->
        [columns[k] EXCEPT !.isPrimaryKey = columns[k].columnName \in pkSet,
                           !.isForeignKey = columns[k].columnName \in fkSet]]

\* ------------------------------------------------------ Description Formatter
constraintsOf(col) ==
  (IF col.isPrimaryKey THEN <<"primary key">> ELSE <<>>)
  \o (IF col.isForeignKey THEN <<"foreign key">> ELSE <<>>)
  \o (IF ~col.isNullable /\ ~col.isPrimaryKey THEN <<"not null">> ELSE <<>>)

\* the description as its lines; an empty sequence is a line left out
formatTableContent(metadata) ==
  [table |-> metadata.tableName,
   columns |-> [k \in DOMAIN metadata.columns |->
                  [name |-> metadata.columns[k].columnName,
                   type |-> metadata.columns[k].dataType,
                   constraints |-> constraintsOf(metadata.columns[k])]],
   foreignKeys |-> metadata.foreignKeys,
   primaryKeys |-> metadata.primaryKeys,
   sampleValues |-> metadata.enumValues]

VARIABLES
  sqlQuery,        \* execute's argument
  gatePc,          \* position of the execute call
  queryWithLimit,  \* local of execute
  gateConn,        \* the call's DBSQLClient holds an open connection
  gateSession,     \* the call's session is open
  gateOp,          \* the call's query operation is open
  gateCalls,       \* warehouse calls made so far by this execute call
  executed,        \* statement handed to session.executeStatement, or Null
  rawRows,         \* what fetchAll returned
  caught,          \* the error held by the catch block, or Null
  closeLog,        \* outcome of every client.close() of this call, in order
  gateResult,      \* the value execute returned, or Null
  idxPc,           \* position of the indexer's main
  idxConn,         \* databricksClient holds an open connection
  idxSession,      \* main's session is open
  store,           \* committed rows of the description store
  truncated,       \* main's delete of the store has taken effect
  tableNames,      \* main's tableNames
  tableIdx,        \* main's loop index i, counted from 1
  started,         \* loop indexes whose extraction has begun
  probes,          \* state of the three probes under Promise.all
  columns,         \* extractTableMetadata's columns
  primaryKeys,     \* extractTableMetadata's primaryKeys
  foreignKeys,     \* extractTableMetadata's foreignKeys
  enumValues,      \* detectEnumValues' enumValues
  enumIdx,         \* position of detectEnumValues' loop in candidates
  enumInflight,    \* candidates whose distinct-value probe is in flight
  enumLog,         \* whether each finished distinct-value probe succeeded
  metadata,        \* the TableMetadata of the current table, once produced
  embeddings,      \* main's embeddings
  txBuffer,        \* rows inserted by the open transaction
  committed,       \* the insert transaction has committed
  idxCaught,       \* the step whose error reached main's catch block
  exitStatus,      \* how the indexer process ended
  searchSeen,      \* what the latest Similarity Search read
  colPc,           \* position of a getColumns call run on its own
  colDump,         \* what the warehouse holds for DESCRIBE TABLE EXTENDED
  colResult,       \* getColumns' result, the rows fetchAll returned
  colReturned      \* the columns getColumns returned

gateVars ==
  <<sqlQuery, gatePc, queryWithLimit, gateConn, gateSession, gateOp, gateCalls,
    executed, rawRows, caught, closeLog, gateResult>>

connVars == <<idxConn, idxSession>>
storeVars == <<store, truncated, txBuffer, committed>>
loopVars == <<tableNames, tableIdx, started, embeddings>>
extractVars ==
  <<probes, columns, primaryKeys, foreignKeys, enumValues, enumIdx,
    enumInflight, enumLog, metadata>>
endVars == <<idxCaught, exitStatus>>

idxVars ==
  <<idxPc, connVars, storeVars, loopVars, extractVars, endVars, searchSeen>>

colVars == <<colPc, colDump, colResult, colReturned>>

vars == <<gateVars, idxVars, colVars>>

\* "nothing yet" values of the record-valued variables
NoError == [none |-> TRUE]
NoResult == [none |-> TRUE]

\* an Error thrown by the driver at the named step
DriverError(step) == [isError |-> TRUE, message |-> <<step>>]

\* error instanceof Error ? error.message : "Unknown Error Occurred"
errorMessage(error) ==
  IF error.isError THEN error.message ELSE <<"Unknown Error Occurred">>

PolicyTemplate ==
  "${disallowedOperation} operations are not allowed. Only read-only queries are permitted."
FailedTemplate == "Query execution failed: ${errorMessage}"

PolicyFailure(disallowedOperation) ==
  [success |-> FALSE,
   error |-> [template |-> PolicyTemplate, arg |-> disallowedOperation]]
ExecutionFailure(error) ==
  [success |-> FALSE,
   error |-> [template |-> FailedTemplate, arg |-> errorMessage(error)]]

Min(a, b) == IF a <= b THEN a ELSE b

\* a slice that keeps everything
SliceAll(rows, n) == rows

\* Array.prototype.slice(0, n)
Slice(rows, n) == SubSeq(rows, 1, Min(Len(rows), n))

SuccessResult(fetched) ==
  LET rows == Slice(fetched, MAX_ROWS)
  IN [success |-> TRUE, rows |-> rows, rowCount |-> Len(rows)]

GateStart(queries, pc) ==
  /\ sqlQuery \in queries
  /\ gatePc = pc
  /\ queryWithLimit = Null
  /\ gateConn = FALSE
  /\ gateSession = FALSE
  /\ gateOp = FALSE
  /\ gateCalls = {}
  /\ executed = Null
  /\ rawRows = <<>>
  /\ caught = NoError
  /\ closeLog = <<>>
  /\ gateResult = NoResult

\* lines 78-85: the denylist hit returns before anything else happens
Reject ==
  /\ gatePc = "start"
  /\ containsDisallowedOperation(sqlQuery) # Null
  /\ gateResult' = PolicyFailure(containsDisallowedOperation(sqlQuery))
  /\ gatePc' = "done"
  /\ UNCHANGED <<sqlQuery, queryWithLimit, gateConn, gateSession, gateOp,
                 gateCalls, executed, rawRows, caught, closeLog>>

\* lines 87-88: ensureRowLimit, then new DBSQLClient(...), which sits in
\* front of the try block: if the constructor throws, execute rejects
Construct ==
  /\ gatePc = "start"
  /\ containsDisallowedOperation(sqlQuery) = Null
  /\ queryWithLimit' = ensureRowLimit(sqlQuery)
  /\ gateCalls' = gateCalls \cup {"new DBSQLClient"}
  /\ \E ok \in BOOLEAN : gatePc' = IF ok THEN "connect" ELSE "thrown"
  /\ UNCHANGED <<sqlQuery, gateConn, gateSession, gateOp, executed, rawRows,
                 caught, closeLog, gateResult>>

\* a step of the try block that threw: control moves to the catch block
Throw(step) ==
  /\ caught' = DriverError(step)
  /\ gatePc' = "catch"

\* lines 93-98
Connect ==
  /\ gatePc = "connect"
  /\ gateCalls' = gateCalls \cup {"connect"}
  /\ \E ok \in BOOLEAN :
       IF ok THEN gateConn' = TRUE /\ gatePc' = "openSession" /\ UNCHANGED caught
       ELSE Throw("connect") /\ UNCHANGED gateConn
  /\ UNCHANGED <<sqlQuery, queryWithLimit, gateSession, gateOp, executed,
                 rawRows, closeLog, gateResult>>

\* lines 100-104
OpenSession ==
  /\ gatePc = "openSession"
  /\ gateCalls' = gateCalls \cup {"openSession"}
  /\ \E ok \in BOOLEAN :
       IF ok THEN gateSession' = TRUE /\ gatePc' = "execute" /\ UNCHANGED caught
       ELSE Throw("openSession") /\ UNCHANGED gateSession
  /\ UNCHANGED <<sqlQuery, queryWithLimit, gateConn, gateOp, executed,
                 rawRows, closeLog, gateResult>>

\* lines 106-109
ExecuteStatement ==
  /\ gatePc = "execute"
  /\ gateCalls' = gateCalls \cup {"executeStatement"}
  /\ executed' = queryWithLimit
  /\ \E ok \in BOOLEAN :
       IF ok THEN gateOp' = TRUE /\ gatePc' = "fetch" /\ UNCHANGED caught
       ELSE Throw("executeStatement") /\ UNCHANGED gateOp
  /\ UNCHANGED <<sqlQuery, queryWithLimit, gateConn, gateSession, rawRows,
                 closeLog, gateResult>>

\* line 111: the driver decides how many rows come back
FetchAll ==
  /\ gatePc = "fetch"
  /\ gateCalls' = gateCalls \cup {"fetchAll"}
  /\ \/ \E n \in RowCounts :
          /\ rawRows' = [i \in 1..n |-> i]
          /\ gatePc' = "closeOperation"
          /\ UNCHANGED caught
     \/ Throw("fetchAll") /\ UNCHANGED rawRows
  /\ UNCHANGED <<sqlQuery, queryWithLimit, gateConn, gateSession, gateOp,
                 executed, closeLog, gateResult>>

\* line 112
CloseOperation ==
  /\ gatePc = "closeOperation"
  /\ gateCalls' = gateCalls \cup {"operation.close"}
  /\ \E ok \in BOOLEAN :
       IF ok THEN gateOp' = FALSE /\ gatePc' = "closeSession" /\ UNCHANGED caught
       ELSE Throw("operation.close") /\ UNCHANGED gateOp
  /\ UNCHANGED <<sqlQuery, queryWithLimit, gateConn, gateSession, executed,
                 rawRows, closeLog, gateResult>>

\* line 113: closing a session also closes the operations it owns
CloseSession ==
  /\ gatePc = "closeSession"
  /\ gateCalls' = gateCalls \cup {"session.close"}
  /\ \E ok \in BOOLEAN :
       IF ok THEN /\ gateSession' = FALSE
                  /\ gateOp' = FALSE
                  /\ gatePc' = "closeClient"
                  /\ UNCHANGED caught
       ELSE Throw("session.close") /\ UNCHANGED <<gateSession, gateOp>>
  /\ UNCHANGED <<sqlQuery, queryWithLimit, gateConn, executed, rawRows,
                 closeLog, gateResult>>

\* client.close(): on success the client's sessions, their operations and the
\* connection are gone; when it throws nothing was released
ClientClose(ok) ==
  /\ gateCalls' = gateCalls \cup {"client.close"}
  /\ closeLog' = Append(closeLog, ok)
  /\ IF ok THEN gateConn' = FALSE /\ gateSession' = FALSE /\ gateOp' = FALSE
     ELSE UNCHANGED <<gateConn, gateSession, gateOp>>

\* lines 114-122: the last close of the success path, then the result
CloseClientAndReturn ==
  /\ gatePc = "closeClient"
  /\ \E ok \in BOOLEAN :
       /\ ClientClose(ok)
       /\ IF ok THEN /\ gateResult' = SuccessResult(rawRows)
                      /\ gatePc' = "done"
                      /\ UNCHANGED caught
          ELSE Throw("client.close") /\ UNCHANGED gateResult
  /\ UNCHANGED <<sqlQuery, queryWithLimit, executed, rawRows>>

\* a catch block that returns without closing the client
CatchBlockNoClose ==
  /\ gatePc = "catch"
  /\ gateResult' = ExecutionFailure(caught)
  /\ gatePc' = "done"
  /\ UNCHANGED <<sqlQuery, queryWithLimit, gateConn, gateSession, gateOp,
                 gateCalls, executed, rawRows, caught, closeLog>>

\* lines 123-137: best-effort close, then the failure result
CatchBlock ==
  /\ gatePc = "catch"
  /\ \E ok \in BOOLEAN : ClientClose(ok)
  /\ gateResult' = ExecutionFailure(caught)
  /\ gatePc' = "done"
  /\ UNCHANGED <<sqlQuery, queryWithLimit, executed, rawRows, caught>>

\* ------------------------------------------------------- Embedding Indexer
NoMetadata == [none |-> TRUE]
NoSearch == [none |-> TRUE]
ProbeNames == {"columns", "primaryKeys", "foreignKeys"}
IdleProbes == [p \in ProbeNames |-> "idle"]

SEARCH_LIMIT == 10

\* a row left in the store by an earlier run
PriorRecord(t) ==
  [tableName |-> t,
   schemaDescription |->
     [table |-> t, columns |-> <<>>, foreignKeys |-> <<>>,
      primaryKeys |-> <<>>, sampleValues |-> <<>>],
   embedding |-> [model |-> "openai/text-embedding-3-small", table |-> t]]

\* what the store may hold when a run begins; "Z" is a table that has since
\* been dropped from the schema
PriorStores ==
  { <<>>, <<PriorRecord("A")>>, <<PriorRecord("Z")>>,
    <<PriorRecord("A"), PriorRecord("Z")>> }

IdxStart(stores, pc) ==
  /\ idxPc = pc
  /\ idxConn = FALSE
  /\ idxSession = FALSE
  /\ store \in stores
  /\ truncated = FALSE
  /\ tableNames = <<>>
  /\ tableIdx = 0
  /\ started = {}
  /\ probes = IdleProbes
  /\ columns = <<>>
  /\ primaryKeys = <<>>
  /\ foreignKeys = <<>>
  /\ enumValues = <<>>
  /\ enumIdx = 0
  /\ enumInflight = {}
  /\ enumLog = <<>>
  /\ metadata = NoMetadata
  /\ embeddings = <<>>
  /\ txBuffer = <<>>
  /\ committed = FALSE
  /\ idxCaught = "none"
  /\ exitStatus = "running"
  /\ searchSeen = NoSearch

\* an error thrown inside main's try block
Fail(step) ==
  /\ idxCaught' = step
  /\ idxPc' = "catch"
  /\ UNCHANGED exitStatus

\* lines 306-311
IdxConnect ==
  /\ idxPc = "connect"
  /\ \E ok \in BOOLEAN :
       IF ok THEN idxConn' = TRUE /\ idxPc' = "openSession" /\ UNCHANGED endVars
       ELSE Fail("connect") /\ UNCHANGED idxConn
  /\ UNCHANGED <<idxSession, storeVars, loopVars, extractVars, searchSeen>>

\* lines 313-317
IdxOpenSession ==
  /\ idxPc = "openSession"
  /\ \E ok \in BOOLEAN :
       IF ok THEN idxSession' = TRUE /\ idxPc' = "ping" /\ UNCHANGED endVars
       ELSE Fail("openSession") /\ UNCHANGED idxSession
  /\ UNCHANGED <<idxConn, storeVars, loopVars, extractVars, searchSeen>>

\* lines 319-320: db.execute(sql`SELECT 1`)
PingStore ==
  /\ idxPc = "ping"
  /\ \E ok \in BOOLEAN :
       IF ok THEN idxPc' = "truncate" /\ UNCHANGED endVars
       ELSE Fail("ping")
  /\ UNCHANGED <<connVars, storeVars, loopVars, extractVars, searchSeen>>

\* a run that does not clear the store first
TruncateStoreKeepsRows ==
  /\ idxPc = "truncate"
  /\ \E ok \in BOOLEAN :
       IF ok THEN /\ truncated' = TRUE
                  /\ idxPc' = "getTables"
                  /\ UNCHANGED <<store, endVars>>
       ELSE Fail("delete") /\ UNCHANGED <<store, truncated>>
  /\ UNCHANGED <<connVars, txBuffer, committed, loopVars, extractVars, searchSeen>>

\* lines 322-323: db.delete(table), committed on its own
TruncateStore ==
  /\ idxPc = "truncate"
  /\ \E ok \in BOOLEAN :
       IF ok THEN /\ store' = <<>>
                  /\ truncated' = TRUE
                  /\ idxPc' = "getTables"
                  /\ UNCHANGED endVars
       ELSE Fail("delete") /\ UNCHANGED <<store, truncated>>
  /\ UNCHANGED <<connVars, txBuffer, committed, loopVars, extractVars, searchSeen>>

\* lines 325-330 with getTables (60-73): the listing, then the loop's entry
GetTables ==
  /\ idxPc = "getTables"
  /\ \/ \E listing \in Listings :
          /\ tableNames' = listing
          /\ tableIdx' = 1
          /\ idxPc' = IF Len(listing) >= 1 THEN "loop" ELSE "transaction"
          /\ UNCHANGED endVars
     \/ Fail("getTables") /\ UNCHANGED <<tableNames, tableIdx>>
  /\ UNCHANGED <<connVars, storeVars, started, embeddings, extractVars, searchSeen>>

\* lines 334 and 245-249: the three promises handed to Promise.all are
\* created, each one issuing its statement
StartExtract ==
  /\ idxPc = "loop"
  /\ started' = started \cup {tableIdx}
  /\ probes' = [p \in ProbeNames |-> "inflight"]
  /\ idxPc' = "probes"
  /\ UNCHANGED <<connVars, storeVars, tableNames, tableIdx, embeddings,
                 columns, primaryKeys, foreignKeys, enumValues, enumIdx,
                 enumInflight, enumLog, metadata, endVars, searchSeen>>

\* as if no probe had a try/catch of its own
RejectsAlways(p) == TRUE

\* whether an error of the probe's statement rejects the probe's promise:
\* getColumns has no try/catch, getPrimaryKeys and getForeignKeys return []
Rejects(p) == p = "columns"

ProbeStep(p) ==
  CASE p = "columns" -> "getColumns"
    [] p = "primaryKeys" -> "getPrimaryKeys"
    [] OTHER -> "getForeignKeys"

\* one of the three probes settles
ResolveProbe(p) ==
  /\ idxPc = "probes"
  /\ probes[p] = "inflight"
  /\ LET t == tableNames[tableIdx]
     IN \/ /\ probes' = [probes EXCEPT ![p] = "ok"]
           /\ columns' = IF p = "columns" THEN getColumns(DescribeRows(t))
                         ELSE columns
           /\ primaryKeys' = IF p = "primaryKeys" THEN getPrimaryKeys(PropertyRows(t))
                             ELSE primaryKeys
           /\ foreignKeys' = IF p = "foreignKeys" THEN getForeignKeys(DescribeRows(t))
                             ELSE foreignKeys
           /\ UNCHANGED <<idxPc, endVars>>
        \/ /\ probes' = [probes EXCEPT ![p] = "failed"]
           /\ UNCHANGED <<columns, primaryKeys, foreignKeys>>
           /\ IF Rejects(p) THEN Fail(ProbeStep(p))
              ELSE UNCHANGED <<idxPc, endVars>>
  /\ UNCHANGED <<connVars, storeVars, loopVars, enumValues, enumIdx,
                 enumInflight, enumLog, metadata, searchSeen>>

\* a detectEnumValues that probes every remaining candidate at once
AllRemainingProbes(next, n) == next..n

\* lines 204-236: the loop awaits each candidate's probe before the next
\* one is issued
ProbesIssued(next, n) == IF next <= n THEN {next} ELSE {}

TableMetadata(t, cols, pks, fks, enums) ==
  [tableName |-> t, columns |-> cols, primaryKeys |-> pks,
   foreignKeys |-> fks, enumValues |-> enums]

\* lines 251-259: Promise.all has resolved; the columns get their flags and
\* detectEnumValues starts
JoinAndDetect ==
  /\ idxPc = "probes"
  /\ \A p \in ProbeNames : probes[p] # "inflight"
  /\ probes["columns"] = "ok"
  /\ LET flagged == flagColumns(columns, primaryKeys, foreignKeys)
         n == Len(candidates(flagged))
     IN /\ columns' = flagged
        /\ enumValues' = <<>>
        /\ enumLog' = <<>>
        /\ enumIdx' = 1
        /\ enumInflight' = ProbesIssued(1, n)
        /\ IF n = 0
             THEN /\ metadata' = TableMetadata(tableNames[tableIdx], flagged,
                                               primaryKeys, foreignKeys, <<>>)
                  /\ idxPc' = "embed"
             ELSE /\ metadata' = metadata
                  /\ idxPc' = "enum"
  /\ UNCHANGED <<connVars, storeVars, loopVars, probes, primaryKeys,
                 foreignKeys, endVars, searchSeen>>

\* lines 205-235: one distinct-value probe settles; lines 259-260 and 335-340
\* once the last one has
ResolveEnumProbe ==
  /\ idxPc = "enum"
  /\ enumIdx \in enumInflight
  /\ LET t == tableNames[tableIdx]
         cands == candidates(columns)
         column == cands[enumIdx]
     IN \E ok \in BOOLEAN :
          LET enums == IF ok
                         THEN enumValues
                              \o enumEntry(column, DistinctRows(t, column.columnName))
                       ELSE enumValues
          IN /\ enumValues' = enums
             /\ enumLog' = Append(enumLog, ok)
             /\ enumIdx' = enumIdx + 1
             /\ enumInflight' =
                  (enumInflight \ {enumIdx}) \cup ProbesIssued(enumIdx + 1, Len(cands))
             /\ IF enumIdx = Len(cands)
                  THEN /\ metadata' = TableMetadata(t, columns, primaryKeys,
                                                    foreignKeys, enums)
                       /\ idxPc' = "embed"
                  ELSE UNCHANGED <<metadata, idxPc>>
  /\ UNCHANGED <<connVars, storeVars, loopVars, probes, columns, primaryKeys,
                 foreignKeys, endVars, searchSeen>>

NewEmbedding(tableName, content) ==
  [tableName |-> tableName,
   schemaDescription |-> content,
   embedding |-> [model |-> "openai/text-embedding-3-small", table |-> content.table]]

\* lines 337-344: the embedding arrives, the record is pushed, the loop moves on
EmbedResolve ==
  /\ idxPc = "embed"
  /\ \/ /\ embeddings' =
             Append(embeddings,
                    NewEmbedding(tableNames[tableIdx], formatTableContent(metadata)))
        /\ tableIdx' = tableIdx + 1
        /\ idxPc' = IF tableIdx < Len(tableNames) THEN "loop" ELSE "transaction"
        /\ probes' = IdleProbes
        /\ columns' = <<>>
        /\ primaryKeys' = <<>>
        /\ foreignKeys' = <<>>
        /\ enumValues' = <<>>
        /\ enumIdx' = 0
        /\ enumLog' = <<>>
        /\ metadata' = NoMetadata
        /\ UNCHANGED <<enumInflight, endVars>>
     \/ /\ Fail("embed")
        /\ UNCHANGED <<embeddings, tableIdx, extractVars>>
  /\ UNCHANGED <<connVars, storeVars, tableNames, started, searchSeen>>

\* an insert that is committed on its own, outside any transaction
TxInsertAutocommit ==
  /\ idxPc = "transaction"
  /\ Len(txBuffer) < Len(embeddings)
  /\ txBuffer' = Append(txBuffer, embeddings[Len(txBuffer) + 1])
  /\ store' = Append(store, embeddings[Len(txBuffer) + 1])
  /\ UNCHANGED <<idxPc, endVars, truncated, committed, connVars, loopVars,
                 extractVars, searchSeen>>

\* lines 346-349: one insert inside the transaction; an error rolls back
TxInsert ==
  /\ idxPc = "transaction"
  /\ Len(txBuffer) < Len(embeddings)
  /\ \/ /\ txBuffer' = Append(txBuffer, embeddings[Len(txBuffer) + 1])
        /\ UNCHANGED <<idxPc, endVars>>
     \/ /\ txBuffer' = <<>>
        /\ Fail("transaction")
  /\ UNCHANGED <<connVars, store, truncated, committed, loopVars, extractVars,
                 searchSeen>>

\* lines 346-352: the callback has returned; the commit makes the rows visible
TxCommit ==
  /\ idxPc = "transaction"
  /\ Len(txBuffer) = Len(embeddings)
  /\ \/ /\ store' = store \o txBuffer
        /\ committed' = TRUE
        /\ txBuffer' = <<>>
        /\ idxPc' = "finally"
        /\ UNCHANGED endVars
     \/ /\ txBuffer' = <<>>
        /\ Fail("transaction")
        /\ UNCHANGED <<store, committed>>
  /\ UNCHANGED <<connVars, truncated, loopVars, extractVars, searchSeen>>

\* lines 353-355: process.exit(1) ends the process inside the catch block, so
\* the finally block never runs
CatchExit ==
  /\ idxPc = "catch"
  /\ exitStatus' = "nonzero"
  /\ idxPc' = "exited"
  /\ UNCHANGED <<idxCaught, connVars, storeVars, loopVars, extractVars, searchSeen>>

\* an error inside the finally block rejects main's promise, which nothing
\* handles: the process ends with a nonzero status
Unhandled ==
  /\ exitStatus' = "nonzero"
  /\ idxPc' = "exited"
  /\ UNCHANGED idxCaught

\* lines 357-359
FinallyCloseSession ==
  /\ idxPc = "finally"
  /\ \E ok \in BOOLEAN :
       IF ok THEN idxSession' = FALSE /\ idxPc' = "closeClient" /\ UNCHANGED endVars
       ELSE Unhandled /\ UNCHANGED idxSession
  /\ UNCHANGED <<idxConn, storeVars, loopVars, extractVars, searchSeen>>

\* line 360
FinallyCloseClient ==
  /\ idxPc = "closeClient"
  /\ \E ok \in BOOLEAN :
       IF ok THEN /\ idxConn' = FALSE
                  /\ idxSession' = FALSE
                  /\ idxPc' = "endPool"
                  /\ UNCHANGED endVars
       ELSE Unhandled /\ UNCHANGED connVars
  /\ UNCHANGED <<storeVars, loopVars, extractVars, searchSeen>>

\* line 361, after which main returns and the process ends normally
FinallyEndPool ==
  /\ idxPc = "endPool"
  /\ \E ok \in BOOLEAN :
       IF ok THEN idxPc' = "done" /\ exitStatus' = "zero" /\ UNCHANGED idxCaught
       ELSE Unhandled
  /\ UNCHANGED <<connVars, storeVars, loopVars, extractVars, searchSeen>>

\* Similarity Search: the select sees the committed rows, at most 10 of them
Search ==
  /\ searchSeen' =
       [afterTruncate |-> truncated,
        tables |-> [k \in 1..Min(Len(store), SEARCH_LIMIT) |->
                      [tableName |-> store[k].tableName,
                       schemaDescription |-> store[k].schemaDescription]]]
  /\ searchSeen' # searchSeen
  /\ UNCHANGED <<idxPc, connVars, storeVars, loopVars, extractVars, endVars>>

\* ------------------------------------------- Metadata Extractor: getColumns
\* names a row of the dump may carry: two plain names, a name with leading
\* whitespace, a name holding the marker past its first character, the empty
\* name, a whitespace-only name, and a sentinel
DumpNames ==
  { <<"i", "d">>, <<"n">>, <<" ", "n">>, <<"a", "#">>,
    <<>>, <<" ">>, <<"#", " ", "D">> }

DumpRowSet ==
  {DescribeRow(name, <<"i", "n", "t">>, NoMatch) : name \in DumpNames}

RowSeqs(n) == UNION {[1..m -> DumpRowSet] : m \in 0..n}

Dumps == RowSeqs(MaxDumpRows)

ColStart(dumps, pc) ==
  /\ colDump \in dumps
  /\ colPc = pc
  /\ colResult = <<>>
  /\ colReturned = <<>>

\* executeStatement, fetchAll and close (lines 80-89): either the rows arrive
\* or one of the three awaits rejects, which getColumns does not catch
DescribeFetch ==
  /\ colPc = "fetch"
  /\ \/ /\ colResult' = colDump
        /\ colPc' = "loop"
     \/ /\ colPc' = "rejected"
        /\ UNCHANGED colResult
  /\ UNCHANGED <<colDump, colReturned>>

\* the loop over result and the return (lines 91-112)
GetColumnsReturn ==
  /\ colPc = "loop"
  /\ colReturned' = getColumns(colResult)
  /\ colPc' = "returned"
  /\ UNCHANGED <<colDump, colResult>>

GateInit ==
  GateStart(Queries, "start") /\ IdxStart({<<>>}, "off")
    /\ ColStart({<<>>}, "off")

GateNext ==
  \/ Reject /\ UNCHANGED <<idxVars, colVars>>
  \/ Construct /\ UNCHANGED <<idxVars, colVars>>
  \/ Connect /\ UNCHANGED <<idxVars, colVars>>
  \/ OpenSession /\ UNCHANGED <<idxVars, colVars>>
  \/ ExecuteStatement /\ UNCHANGED <<idxVars, colVars>>
  \/ FetchAll /\ UNCHANGED <<idxVars, colVars>>
  \/ CloseOperation /\ UNCHANGED <<idxVars, colVars>>
  \/ CloseSession /\ UNCHANGED <<idxVars, colVars>>
  \/ CloseClientAndReturn /\ UNCHANGED <<idxVars, colVars>>
  \/ CatchBlock /\ UNCHANGED <<idxVars, colVars>>

GateSpec == GateInit /\ [][GateNext]_vars

IndexerInit ==
  IdxStart(PriorStores, "connect") /\ GateStart({<<>>}, "off")
    /\ ColStart({<<>>}, "off")

IndexerNext ==
  \/ IdxConnect /\ UNCHANGED <<gateVars, colVars>>
  \/ IdxOpenSession /\ UNCHANGED <<gateVars, colVars>>
  \/ PingStore /\ UNCHANGED <<gateVars, colVars>>
  \/ TruncateStore /\ UNCHANGED <<gateVars, colVars>>
  \/ GetTables /\ UNCHANGED <<gateVars, colVars>>
  \/ StartExtract /\ UNCHANGED <<gateVars, colVars>>
  \/ \E p \in ProbeNames : ResolveProbe(p) /\ UNCHANGED <<gateVars, colVars>>
  \/ JoinAndDetect /\ UNCHANGED <<gateVars, colVars>>
  \/ ResolveEnumProbe /\ UNCHANGED <<gateVars, colVars>>
  \/ EmbedResolve /\ UNCHANGED <<gateVars, colVars>>
  \/ TxInsert /\ UNCHANGED <<gateVars, colVars>>
  \/ TxCommit /\ UNCHANGED <<gateVars, colVars>>
  \/ CatchExit /\ UNCHANGED <<gateVars, colVars>>
  \/ FinallyCloseSession /\ UNCHANGED <<gateVars, colVars>>
  \/ FinallyCloseClient /\ UNCHANGED <<gateVars, colVars>>
  \/ FinallyEndPool /\ UNCHANGED <<gateVars, colVars>>
  \/ Search /\ UNCHANGED <<gateVars, colVars>>

IndexerSpec == IndexerInit /\ [][IndexerNext]_vars

ColumnsInit ==
  ColStart(Dumps, "fetch") /\ GateStart({<<>>}, "off")
    /\ IdxStart({<<>>}, "off")

ColumnsNext ==
  \/ DescribeFetch /\ UNCHANGED <<gateVars, idxVars>>
  \/ GetColumnsReturn /\ UNCHANGED <<gateVars, idxVars>>

ColumnsSpec == ColumnsInit /\ [][ColumnsNext]_vars

\* ------------------------------------------- Metadata Extractor: the claims
\* a sentinel row: its name starts with the marker character
IsSentinel(row) == row.col_name # <<>> /\ row.col_name[1] = "#"

\* a blank name: empty, or nothing but whitespace
IsBlankName(name) == \A i \in 1..Len(name) : name[i] \in SpaceChars

\* index of the first sentinel row, or one past the end when there is none
FirstSentinel(rows) ==
  IF \E i \in 1..Len(rows) : IsSentinel(rows[i])
    THEN CHOOSE i \in 1..Len(rows) :
           /\ IsSentinel(rows[i])
           /\ \A j \in 1..(i - 1) : ~IsSentinel(rows[j])
    ELSE Len(rows) + 1

NotBlankRow(row) == ~IsBlankName(row.col_name)

\* the rows with a non-blank name that precede the first sentinel, in order
NamedRowsBeforeSentinel(rows) ==
  SelectSeq(SubSeq(rows, 1, FirstSentinel(rows) - 1), NotBlankRow)

NamesOf(rows) == [k \in 1..Len(rows) |-> rows[k].col_name]

ReturnedNames == [k \in 1..Len(colReturned) |-> colReturned[k].columnName]

\* C11: for every sequence of catalog-dump rows, the columns getColumns
\* returns are exactly the rows with a non-blank name that precede the first
\* sentinel row, in catalog order; a blank row before the sentinel, its name
\* empty or whitespace-only, is skipped and never ends the column section.
C11_BlankRowsSkipped ==
  colPc = "returned" =>
    ReturnedNames = NamesOf(NamedRowsBeforeSentinel(colResult))

\* -------------------------------------------- Embedding Indexer: the claims
\* C4: on every exit path of a run, the error paths included, the warehouse
\* session and the warehouse connection have been released when the process
\* ends.
C4_ReleasedOnEveryExit ==
  idxPc \in {"done", "exited"} => (~idxSession /\ ~idxConn)

TableNamesOf(rows) == [k \in DOMAIN rows |-> rows[k].tableName]

\* C5: once the run's insert transaction has committed, the store holds as
\* many records as tables were listed, exactly one for each listed table name
\* and none for any other table name, whatever it held before the run.
C5_OneRecordPerListedTable ==
  committed =>
    /\ Len(store) = Len(tableNames)
    /\ \A k \in DOMAIN tableNames :
         Cardinality({j \in DOMAIN store : store[j].tableName = tableNames[k]}) = 1
    /\ \A j \in DOMAIN store : store[j].tableName \in Range(tableNames)

\* C5 witness: a run over two tables ended normally, and a search made before
\* its truncate had seen a record of the dropped table "Z"
C5_Witness ==
  /\ idxPc = "done"
  /\ Len(tableNames) = 2
  /\ Len(store) = 2
  /\ searchSeen # NoSearch
  /\ ~searchSeen.afterTruncate
  /\ \E k \in DOMAIN searchSeen.tables : searchSeen.tables[k].tableName = "Z"

\* C6: from the truncate on, the store holds no record at all or, only once
\* the transaction has committed, one record per listed table; a search that
\* reads the store after the truncate sees one of these two as well; and when
\* the column listing of a table throws, no later table is processed, nothing
\* is committed and the store stays empty.
C6_AllOrNothingAfterTruncate ==
  truncated =>
    /\ store = <<>> \/ (committed /\ TableNamesOf(store) = tableNames)
    /\ (searchSeen # NoSearch /\ searchSeen.afterTruncate) =>
         \/ searchSeen.tables = <<>>
         \/ committed /\ TableNamesOf(searchSeen.tables) = tableNames
    /\ idxCaught = "getColumns" =>
         /\ store = <<>>
         /\ ~committed
         /\ started = 1..tableIdx
         /\ Len(embeddings) = tableIdx - 1

\* C6 witness: the column listing of the first of two tables threw; the run
\* ended with an empty store although a search had seen records before it
C6_Witness ==
  /\ idxPc = "exited"
  /\ idxCaught = "getColumns"
  /\ Len(tableNames) = 2
  /\ started = {1}
  /\ store = <<>>
  /\ searchSeen # NoSearch
  /\ ~searchSeen.afterTruncate
  /\ Len(searchSeen.tables) = 2

\* what the catalog says about each table, written out by hand
ExpectedColumns(t) ==
  CASE t = "A" -> <<<<"I","D">>, <<"s","t","a","t","u","s">>>>
    [] t = "B" -> <<<<"I","D">>, <<"a","_","i","d">>, <<"n","o","t","e">>>>
    [] t = "C" -> <<<<"n","a","m","e">>, <<"k","i","n","d">>, <<"n">>>>
    [] OTHER -> <<<<"k">>, <<"t","a","g">>>>
ExpectedPrimaryKeys(t) ==
  CASE t = "A" -> <<<<"I","D">>>>
    [] t = "B" -> <<<<"I","D">>, <<"a","_","i","d">>>>
    [] OTHER -> <<>>
ExpectedForeignKeys(t) ==
  CASE t = "B" -> << [columnName |-> <<"a","_","i","d">>, referencedTable |-> <<"A">>,
                      referencedColumn |-> <<"i","d">>] >>
    [] t = "D" -> << [columnName |-> <<"k">>, referencedTable |-> <<"A">>,
                      referencedColumn |-> <<"i","d">>] >>
    [] OTHER -> <<>>
\* the text columns of a table, in catalog order, each with the enumeration
\* its distinct values make, if they make one
ExpectedCandidates(t) ==
  CASE t = "A" -> << [columnName |-> <<"s","t","a","t","u","s">>, values |-> << <<1>>, <<2>>, <<3>> >>] >>
    [] t = "B" -> << [columnName |-> <<"n","o","t","e">>, values |-> <<>>] >>
    [] t = "C" -> << [columnName |-> <<"n","a","m","e">>, values |-> <<>>],
                     [columnName |-> <<"k","i","n","d">>, values |-> << <<1>>, <<2>> >>],
                     [columnName |-> <<"n">>, values |-> <<>>] >>
    [] OTHER -> << [columnName |-> <<"t","a","g">>, values |-> << <<4>>, <<5>> >>] >>

\* the enumerations of the candidates whose probe succeeded
RECURSIVE ExpectedEnumValues(_, _)
ExpectedEnumValues(cands, log) ==
  IF cands = <<>> THEN <<>>
  ELSE (IF Head(log) /\ Head(cands).values # <<>> THEN <<Head(cands)>> ELSE <<>>)
       \o ExpectedEnumValues(Tail(cands), Tail(log))

EnrichmentSteps == {"getPrimaryKeys", "getForeignKeys", "detectEnumValues"}

\* C9: a failed column listing fails the table's extraction and reaches
\* main's catch block; a failed primary-key lookup, foreign-key lookup or
\* distinct-value probe never does, and leaves a TableMetadata whose columns
\* and other signals are what the catalog says while the failed signal is
\* empty (for enum detection: the failed column's entry is missing).
C9_EnrichmentFailuresIsolated ==
  /\ idxCaught \notin EnrichmentSteps
  /\ probes["columns"] = "failed" =>
       /\ idxPc \in {"catch", "exited"}
       /\ idxCaught = "getColumns"
       /\ metadata = NoMetadata
  /\ metadata # NoMetadata =>
       LET t == metadata.tableName
       IN /\ [k \in DOMAIN metadata.columns |-> metadata.columns[k].columnName]
               = ExpectedColumns(t)
          /\ metadata.primaryKeys =
               IF probes["primaryKeys"] = "ok" THEN ExpectedPrimaryKeys(t) ELSE <<>>
          /\ metadata.foreignKeys =
               IF probes["foreignKeys"] = "ok" THEN ExpectedForeignKeys(t) ELSE <<>>
          /\ Len(enumLog) = Len(ExpectedCandidates(t))
          /\ metadata.enumValues = ExpectedEnumValues(ExpectedCandidates(t), enumLog)

\* C9 witness: for table B the primary-key lookup and the distinct-value
\* probe failed, the foreign-key lookup did not, and the metadata was produced
C9_Witness ==
  /\ metadata # NoMetadata
  /\ metadata.tableName = "B"
  /\ probes["primaryKeys"] = "failed"
  /\ probes["foreignKeys"] = "ok"
  /\ enumLog = <<FALSE>>
  /\ metadata.primaryKeys = <<>>
  /\ Len(metadata.foreignKeys) = 1
  /\ Len(metadata.columns) = 3

CatalogInflight == {p \in ProbeNames : probes[p] = "inflight"}
EnumDetectionStarted == enumIdx >= 1

\* C10 as stated: the primary-key lookup, the foreign-key lookup and the enum
\* detection of a table are started together, before any of them is awaited.
C10_EnrichmentStartedTogether ==
  (probes["primaryKeys"] # "idle" \/ probes["foreignKeys"] # "idle"
     \/ EnumDetectionStarted)
  => (probes["primaryKeys"] # "idle" /\ probes["foreignKeys"] # "idle"
        /\ EnumDetectionStarted)

\* C10 amended: the column listing, the primary-key lookup and the
\* foreign-key lookup of a table are started together and joined; enum
\* detection starts only after that join and probes one column at a time; no
\* more than 3 probes are ever in flight; and the TableMetadata is produced
\* only when nothing is in flight and every candidate column has been probed.
C10_CatalogProbesFanOut ==
  /\ (\E p \in ProbeNames : probes[p] # "idle") =>
       (\A p \in ProbeNames : probes[p] # "idle")
  /\ EnumDetectionStarted => CatalogInflight = {}
  /\ Cardinality(enumInflight) <= 1
  /\ Cardinality(CatalogInflight) + Cardinality(enumInflight) <= 3
  /\ metadata # NoMetadata =>
       /\ CatalogInflight = {}
       /\ enumInflight = {}
       /\ Len(enumLog) = Len(candidates(columns))

\* C10 witness: the three catalog probes of table C are in flight together
C10_Witness ==
  /\ idxPc = "probes"
  /\ tableNames[tableIdx] = "C"
  /\ CatalogInflight = ProbeNames
  /\ enumInflight = {}

\* ------------------------------------------------- Query Gate: the claims
\* q holds the keyword at position i as a whole word: spelled letter by
\* letter in either case, with no word character next to it on either side
WholeWordAt(q, i, keyword) ==
  LET last == i + Len(keyword) - 1
  IN /\ last <= Len(q)
     /\ i = 1 \/ q[i - 1] \notin WordChars
     /\ last = Len(q) \/ q[last + 1] \notin WordChars
     /\ \A k \in 1..Len(keyword) :
           q[i + k - 1] = keyword[k] \/ q[i + k - 1] = UpperChar(keyword[k])

\* positions in the denylist of the keywords q contains as a whole word
DeniedKeywords(q) ==
  {k \in DOMAIN DISALLOWED_OPERATIONS :
     \E i \in 1..Len(q) : WholeWordAt(q, i, DISALLOWED_OPERATIONS[k])}

FirstDenied(q) ==
  LET denied == DeniedKeywords(q)
  IN CHOOSE k \in denied : \A j \in denied : k <= j

UpperCased(keyword) == [k \in DOMAIN keyword |-> UpperChar(keyword[k])]

\* C1: an input that contains a denylisted keyword as a whole word, in any
\* letter case, never causes a warehouse call, and the call returns the
\* failure result that names the first matching keyword of the denylist,
\* uppercased, with no rows.
C1_DeniedNeverReachesWarehouse ==
  DeniedKeywords(sqlQuery) # {} =>
    /\ gateCalls = {}
    /\ gatePc \in {"start", "done"}
    /\ gatePc = "done" =>
         /\ DOMAIN gateResult = {"success", "error"}
         /\ gateResult.success = FALSE
         /\ gateResult.error.template = PolicyTemplate
         /\ gateResult.error.arg =
              UpperCased(DISALLOWED_OPERATIONS[FirstDenied(sqlQuery)])

\* C1 witness: a statement holding two denylisted words in mixed case, the
\* later one in the text being the earlier one in the denylist, was rejected
C1_Witness ==
  /\ gatePc = "done"
  /\ Cardinality(DeniedKeywords(sqlQuery)) = 2
  /\ sqlQuery = <<"D","o">> \o <<" ">> \o <<"i","n","s","e","r","t">>
  /\ gateResult.error.arg = <<"I","N","S","E","R","T">>

\* a returned value is one of the two shapes of the discriminated result
IsDiscriminated(r) ==
  \/ DOMAIN r = {"success", "rows", "rowCount"} /\ r.success = TRUE
  \/ DOMAIN r = {"success", "error"} /\ r.success = FALSE

\* C2: execute never throws past its boundary, whatever step fails, client
\* construction included: it never ends by rejecting, and whenever it has
\* ended it has returned a success with rows and no error or a failure with
\* an error and no rows.
C2_NeverThrows ==
  /\ gatePc # "thrown"
  /\ gatePc = "done" => IsDiscriminated(gateResult)

\* the call got past the denylist check and built its client
PastDenylist == "new DBSQLClient" \in gateCalls

\* C3 as stated: on every exit path past the denylist check, every session
\* and connection the call opened is closed when the call returns.
C3_AlwaysClosedAtReturn ==
  (gatePc = "done" /\ PastDenylist) => (~gateConn /\ ~gateSession)

\* C3 amended: on every exit path past the denylist check client.close() has
\* been called before the call returns, and unless that last close itself
\* threw no session and no connection of the call is left open; on the error
\* path a failing close is swallowed and the returned message is the one of
\* the error that sent the call to the catch block.
C3_ClosedUnlessCloseFails ==
  (gatePc = "done" /\ PastDenylist) =>
    /\ closeLog # <<>>
    /\ closeLog[Len(closeLog)] => (~gateConn /\ ~gateSession)
    /\ caught # NoError =>
         /\ gateResult.success = FALSE
         /\ gateResult.error.template = FailedTemplate
         /\ gateResult.error.arg = caught.message

\* C3 witness: the statement failed with session and connection open, the
\* catch block's close succeeded, and the result carries the statement error
C3_Witness ==
  /\ gatePc = "done"
  /\ caught = DriverError("executeStatement")
  /\ "openSession" \in gateCalls
  /\ closeLog = <<TRUE>>
  /\ ~gateConn /\ ~gateSession
  /\ gateResult.error.arg = <<"executeStatement">>

\* C7: a successful result holds at most 500 rows, rowCount is the number of
\* rows returned, and the rows are the first ones the driver delivered, in
\* the driver's order.
C7_RowsCapped ==
  (gatePc = "done" /\ gateResult.success) =>
    /\ Len(gateResult.rows) <= 500
    /\ gateResult.rowCount = Len(gateResult.rows)
    /\ Len(gateResult.rows) = Min(Len(rawRows), 500)
    /\ \A i \in 1..Len(gateResult.rows) : gateResult.rows[i] = rawRows[i]

\* C7 witness: the driver delivered more than 500 rows and 500 came back
C7_Witness ==
  /\ gatePc = "done"
  /\ gateResult.success
  /\ Len(rawRows) > 500
  /\ gateResult.rowCount = 500

\* q contains the word somewhere, compared without regard to letter case
ContainsIgnoringCase(q, word) ==
  \E i \in 1..(Len(q) - Len(word) + 1) :
     \A k \in 1..Len(word) : LowerChar(q[i + k - 1]) = word[k]

HasLimitingClause(q) ==
  \/ ContainsIgnoringCase(q, <<"l","i","m","i","t">>)
  \/ ContainsIgnoringCase(q, <<"f","e","t","c","h">>)

\* q without its trailing whitespace and without the one semicolon in front
\* of that whitespace
WithoutTrailer(q) ==
  LET ends == {n \in 0..Len(q) :
                 /\ n = 0 \/ ~IsSpaceChar(q[n])
                 /\ \A j \in (n + 1)..Len(q) : IsSpaceChar(q[j])}
      n == CHOOSE m \in ends : TRUE
  IN IF n > 0 /\ q[n] = ";" THEN SubSeq(q, 1, n - 1) ELSE SubSeq(q, 1, n)

\* C8: the statement sent to the warehouse is, for an input with neither
\* "limit" nor "fetch" in it (any letter case), the input without its trailing
\* semicolon and whitespace followed by " LIMIT 500"; for any other input it
\* is the input up to the trailing semicolon and whitespace, with no LIMIT
\* appended.
C8_StatementSent ==
  executed # Null =>
    IF HasLimitingClause(sqlQuery)
      THEN WithoutTrailer(executed) = WithoutTrailer(sqlQuery)
      ELSE executed = WithoutTrailer(sqlQuery)
                        \o <<" ","L","I","M","I","T"," ","5","0","0">>

\* C8 witness: a statement ending in a semicolon and a blank, without a
\* limiting clause, was sent with the LIMIT clause in their place
C8_Witness ==
  /\ sqlQuery = <<"t","1">> \o <<";">> \o <<" ">>
  /\ executed = <<"t","1"," ","L","I","M","I","T"," ","5","0","0">>

====
